---- MODULE Spec2Model ----
(***************************************************************************)
(* Model of the simperby repository crate:                                 *)
(*   - RawRepositoryImpl, the asynchronous wrapper that guards one         *)
(*     CurRepository handle with a tokio Mutex<Option<..>> (raw.rs);       *)
(*   - CurRepository, the synchronous git2 operations the distributed      *)
(*     repository uses (raw.rs);                                           *)
(*   - DistributedRepository::{clean, fetch, create_agenda} (lib.rs).      *)
(* The commit sequence verifier and the semantic commit codec live in      *)
(* other crates; they are modelled from their specification.               *)
(***************************************************************************)
EXTENDS Integers, Sequences, FiniteSets, TLC

VARIABLES
    \* ---- RawRepositoryImpl (one wrapper, several calling tasks) ----
    cwLock,     \* holder of `inner`'s tokio mutex: a task, or ReleasedLock
    cwSlot,     \* TRUE iff the guarded Option<CurRepository> is Some
    cwPc,       \* position of each task inside its async method
    cwWorker,   \* state of the spawn_blocking worker each task started
    cwOp,       \* the raw operation each task is calling
    \* ---- the repository on disk ----
    rawComplete,\* FALSE: operations left `unimplemented!()` panic;
                \* TRUE: they behave as the RawRepository trait documents
    branches,   \* local branches: name -> commit
    head,       \* the checked-out branch (HEAD), "HEAD" when detached
    detached,   \* the commit a detached HEAD points at, NoBase otherwise
    remotes,    \* names of the registered remotes
    created,    \* commits created at run time (by create_agenda)
    \* ---- DistributedRepository: the operation in progress ----
    pc,                 \* "idle" | "fetch_loop"
    pending,            \* fetch: branches_after_fetch not yet visited
    block_header_vec,   \* fetch: headers (commits) of accepted blocks
    finalized_branches, \* fetch: the branches of those blocks
    peers,              \* fetch: length of known_peers
    block_commit,       \* sync: the commit to synchronize to
    \* ---- record of the last operation (observation only) ----
    lastOp, outcome, fault, pre, visited, nOps,
    prev,       \* the operation before the last one, and how it ended
    \* ---- a direct call of a CurRepository operation (observation) ----
    rawArgs,    \* the arguments of the last call
    rawResult,  \* what it returned
    \* ---- a commit sequence verifier driven directly ----
    csv         \* its state (last_header, phase, transactions collected)

cwVars == <<cwLock, cwSlot, cwPc, cwWorker, cwOp>>
repoVars == <<rawComplete, branches, head, detached, remotes, created>>
drVars == <<pc, pending, block_header_vec, finalized_branches, peers,
           block_commit>>
obsVars == <<lastOp, outcome, fault, pre, visited, nOps, prev>>
rawVars == <<rawArgs, rawResult>>
csvVars == <<csv>>
vars == <<cwVars, repoVars, drVars, obsVars, rawVars, csvVars>>

-----------------------------------------------------------------------------
(* Bounds of the model *)

MaxTasks == 3      \* tasks calling the wrapper concurrently
MaxOps == 2        \* distributed-repository operations in one behaviour
MaxPeers == 2      \* length of known_peers
MaxExtra == 2      \* branches besides finalized, work, fp at the start
MaxCreated == 1    \* commits created at run time
MaxEvents == 6     \* commits applied to one commit sequence verifier

-----------------------------------------------------------------------------
(* RawRepositoryImpl: raw.rs 860-1291.  Every async method has the shape   *)
(*   let mut lock = self.inner.lock().await;                               *)
(*   let inner = lock.take().expect("RawRepoImpl invariant violated");     *)
(*   let (result, inner) = spawn_blocking(move || (inner.op(..), inner))   *)
(*                             .await.unwrap();                            *)
(*   lock.replace(inner);                                                  *)
(*   result                                                                *)

Tasks == 1..MaxTasks

\* Operations of CurRepository whose body is `unimplemented!()`.
Unimplemented ==
    {"get_branches", "create_commit", "create_semantic_commit",
     "read_semantic_commit", "run_garbage_collection", "checkout_clean",
     "show_commit", "list_descendants", "list_children", "fetch_all",
     "list_remote_tracking_branches"}

\* The operations the tasks of the model call: two with a body, one without.
CwOps == {"list_branches", "locate_branch", "read_semantic_commit"}

\* The worker's closure panics iff the operation's body is unimplemented!().
WorkerPanics(op) == op \in Unimplemented

\* tokio::sync::Mutex::lock().await completes only when nobody holds the lock.
LockFree == cwLock \notin Tasks

\* Option::take leaves None behind; a copy of the handle would leave Some.
SlotAfterTakeCopy == TRUE
SlotAfterTake == FALSE

\* A guard that is never dropped would leave the mutex with a holder.
LockNeverReleased == MaxTasks

\* Dropping the MutexGuard (normal return, panic unwinding or cancellation)
\* leaves the mutex without a holder.
ReleasedLock == 0

InitCW ==
    /\ cwLock = ReleasedLock
    /\ cwSlot = TRUE
    /\ cwPc = [t \in Tasks |-> "idle"]
    /\ cwWorker = [t \in Tasks |-> "none"]
    /\ cwOp = [t \in Tasks |-> "none"]

\* A task calls an async method and suspends at `self.inner.lock().await`.
CwCall(t, op) ==
    /\ cwPc[t] = "idle"
    /\ cwPc' = [cwPc EXCEPT ![t] = "waiting"]
    /\ cwOp' = [cwOp EXCEPT ![t] = op]
    /\ UNCHANGED <<cwLock, cwSlot, cwWorker>>
    /\ UNCHANGED <<repoVars, drVars, obsVars, rawVars, csvVars>>

\* The lock is granted; `lock.take().expect(..)` finds the handle and moves
\* it into the closure given to spawn_blocking; the task suspends on the
\* JoinHandle.
CwTakeAndSpawn(t) ==
    /\ cwPc[t] = "waiting"
    /\ LockFree
    /\ cwSlot
    /\ cwLock' = t
    /\ cwSlot' = SlotAfterTake
    /\ cwWorker' = [cwWorker EXCEPT ![t] = "running"]
    /\ cwPc' = [cwPc EXCEPT ![t] = "awaiting"]
    /\ UNCHANGED cwOp
    /\ UNCHANGED <<repoVars, drVars, obsVars, rawVars, csvVars>>

\* The lock is granted but the slot is None: expect() panics, the guard is
\* dropped by unwinding.
CwHandleMissing(t) ==
    /\ cwPc[t] = "waiting"
    /\ LockFree
    /\ ~cwSlot
    /\ cwPc' = [cwPc EXCEPT ![t] = "panicked"]
    /\ cwLock' = ReleasedLock
    /\ UNCHANGED <<cwSlot, cwWorker, cwOp>>
    /\ UNCHANGED <<repoVars, drVars, obsVars, rawVars, csvVars>>

\* The synchronous CurRepository call returns (result, inner).
CwWorkerReturn(t) ==
    /\ cwWorker[t] = "running"
    /\ ~WorkerPanics(cwOp[t])
    /\ cwWorker' = [cwWorker EXCEPT ![t] = "returned"]
    /\ UNCHANGED <<cwLock, cwSlot, cwPc, cwOp>>
    /\ UNCHANGED <<repoVars, drVars, obsVars, rawVars, csvVars>>

\* The synchronous call panics: the closure unwinds and drops `inner`.
CwWorkerPanic(t) ==
    /\ cwWorker[t] = "running"
    /\ WorkerPanics(cwOp[t])
    /\ cwWorker' = [cwWorker EXCEPT ![t] = "panicked"]
    /\ UNCHANGED <<cwLock, cwSlot, cwPc, cwOp>>
    /\ UNCHANGED <<repoVars, drVars, obsVars, rawVars, csvVars>>

\* The JoinHandle yields Ok((result, inner)): lock.replace(inner); the guard
\* is dropped on return.
CwReplace(t) ==
    /\ cwPc[t] = "awaiting"
    /\ cwWorker[t] = "returned"
    /\ cwSlot' = TRUE
    /\ cwLock' = ReleasedLock
    /\ cwPc' = [cwPc EXCEPT ![t] = "done"]
    /\ cwWorker' = [cwWorker EXCEPT ![t] = "joined"]
    /\ UNCHANGED cwOp
    /\ UNCHANGED <<repoVars, drVars, obsVars, rawVars, csvVars>>

\* The JoinHandle yields Err(JoinError): `.unwrap()` panics before
\* lock.replace is reached; the guard is dropped by unwinding.
CwJoinUnwrapPanic(t) ==
    /\ cwPc[t] = "awaiting"
    /\ cwWorker[t] = "panicked"
    /\ cwPc' = [cwPc EXCEPT ![t] = "panicked"]
    /\ cwLock' = ReleasedLock
    /\ UNCHANGED <<cwSlot, cwWorker, cwOp>>
    /\ UNCHANGED <<repoVars, drVars, obsVars, rawVars, csvVars>>

\* The caller drops the future while it waits for the lock: nothing is held.
CwCancelWaiting(t) ==
    /\ cwPc[t] = "waiting"
    /\ cwPc' = [cwPc EXCEPT ![t] = "cancelled"]
    /\ UNCHANGED <<cwLock, cwSlot, cwWorker, cwOp>>
    /\ UNCHANGED <<repoVars, drVars, obsVars, rawVars, csvVars>>

\* The caller drops the future while it waits for the worker: the guard is
\* dropped, the JoinHandle is dropped and the blocking worker is detached
\* (it runs to its end; whatever it returns is discarded with the handle).
CwCancelAwaiting(t) ==
    /\ cwPc[t] = "awaiting"
    /\ cwPc' = [cwPc EXCEPT ![t] = "cancelled"]
    /\ cwLock' = ReleasedLock
    /\ UNCHANGED <<cwSlot, cwWorker, cwOp>>
    /\ UNCHANGED <<repoVars, drVars, obsVars, rawVars, csvVars>>

NextCW ==
    \/ \E t \in Tasks, op \in CwOps : CwCall(t, op)
    \/ \E t \in Tasks : CwTakeAndSpawn(t)
    \/ \E t \in Tasks : CwHandleMissing(t)
    \/ \E t \in Tasks : CwWorkerReturn(t)
    \/ \E t \in Tasks : CwWorkerPanic(t)
    \/ \E t \in Tasks : CwReplace(t)
    \/ \E t \in Tasks : CwJoinUnwrapPanic(t)
    \/ \E t \in Tasks : CwCancelWaiting(t)
    \/ \E t \in Tasks : CwCancelAwaiting(t)

-----------------------------------------------------------------------------
(* The commit graph.  Commits are numbers.  The trunk is a linear history  *)
(* (each commit the single child of the one before); the last finalized    *)
(* block sits deeper than the 256 ancestors create_agenda asks for, and   *)
(* the trunk goes on for more than 256 commits after it.  The other        *)
(* commits hang off the trunk, one of them a merge; `created` holds the    *)
(* commits made at run time.                                               *)

Trunk == 1..520
CreatedId(i) == 1000 + i
C == [initial |-> 1,          \* the root commit
      old |-> 255,            \* a commit before the last finalized block
      block1 |-> 256,         \* Block, height 1
      tx |-> 257,             \* Transaction
      agenda2 |-> 258,        \* Agenda, height 2, over <<tx>>
      proof2 |-> 259,         \* AgendaProof
      block2 |-> 260,         \* Block, height 2
      agenda3 |-> 261,        \* Agenda, height 3, over no transaction
      proof3 |-> 262,         \* AgendaProof
      block3 |-> 263,         \* Block, height 3
      far |-> 520,            \* Transaction, 257 commits after block3
      fork2 |-> 601,          \* Block, height 2, sibling of block2
      garbage |-> 603,        \* a commit that does not decode
      early2 |-> 604,         \* Block, height 2, right after block1
      island |-> 605,         \* a second root, unrelated to the trunk
      proofcommit |-> 606,    \* the commit of the `fp` branch
      merge |-> 607,          \* a merge of tx and early2
      onmerge |-> 608,        \* the single child of the merge
      extra |-> 609,          \* ExtraAgendaTransaction, child of tx
      ongarbage |-> 610,      \* Transaction, child of garbage
      late |-> 611,           \* Transaction, child of extra
      onlate |-> 612]         \* Transaction, child of late

SideParent == (601 :> 259) @@ (603 :> 256) @@ (604 :> 256) @@ (605 :> 0)
              @@ (606 :> 256) @@ (608 :> 607) @@ (609 :> 257)
              @@ (610 :> 603) @@ (611 :> 609) @@ (612 :> 611)

\* The commits with two parents, the second one the newer.
MergeParents == (607 :> <<257, 604>>)

CreatedIds == {CreatedId(i) : i \in 1..Len(created)}
CreatedRec(c) == created[c - CreatedId(0)]
Commits ==
    Trunk \cup DOMAIN SideParent \cup DOMAIN MergeParents \cup CreatedIds

\* The single parent of a commit that is no merge, 0 for a root.
Parent(c) ==
    IF c \in Trunk THEN c - 1
    ELSE IF c \in CreatedIds THEN CreatedRec(c).parent
    ELSE SideParent[c]

\* git2 Commit::parents().len().
NumParents(c) ==
    IF c \in DOMAIN MergeParents THEN Len(MergeParents[c])
    ELSE IF Parent(c) = 0 THEN 0
    ELSE 1

\* What format::from_semantic_commit makes of the commit.
Kind(c) ==
    IF c \in CreatedIds THEN "Agenda"
    ELSE IF c \in {256, 260, 263, 601, 604} THEN "Block"
    ELSE IF c \in {258, 261} THEN "Agenda"
    ELSE IF c \in {259, 262} THEN "AgendaProof"
    ELSE IF c \in {603, 606} THEN "Undecodable"
    ELSE IF c = 609 THEN "ExtraAgendaTransaction"
    ELSE "Transaction"

\* BlockHeader.height / Agenda.height.
Height(c) ==
    IF c \in CreatedIds THEN CreatedRec(c).height
    ELSE IF c = 256 THEN 1
    ELSE IF c \in {258, 260, 601, 604} THEN 2
    ELSE IF c \in {261, 263} THEN 3
    ELSE 0

\* The transactions an Agenda's hash was computed over.
AgendaTxs(c) ==
    IF c \in CreatedIds THEN CreatedRec(c).txs
    ELSE IF c = 258 THEN <<257>>
    ELSE <<>>

\* BlockHeader.previous_hash, as the commit of the previous block.
PrevBlock(c) == IF c = 263 THEN 260 ELSE 256

\* The blocks the proof stored on `fp` verifies (verify_finalization_proof).
FpVerifies == {260, 263, 601}

RECURSIVE AncSet(_)
\* A commit and all its ancestors.
AncSet(c) ==
    IF c = 0 THEN {}
    ELSE IF c \in Trunk THEN 1..c
    ELSE IF c \in DOMAIN MergeParents
      THEN {c} \cup AncSet(MergeParents[c][1]) \cup AncSet(MergeParents[c][2])
    ELSE {c} \cup AncSet(Parent(c))

RECURSIVE Walk(_)
\* git2 revwalk pushed at c, Sort::TIME | Sort::TOPOLOGICAL: c, then its
\* ancestors, nearest first; below a merge, the commits only the newer
\* parent reaches, then the older parent and what it reaches.
Walk(c) ==
    IF c = 0 THEN <<>>
    ELSE IF c \in Trunk THEN [i \in 1..c |-> c + 1 - i]
    ELSE IF c \in DOMAIN MergeParents
      THEN LET older == MergeParents[c][1]
               OnlyNewer(x) == x \notin AncSet(older)
           IN  <<c>> \o SelectSeq(Walk(MergeParents[c][2]), OnlyNewer)
                    \o Walk(older)
    ELSE <<c>> \o Walk(Parent(c))

Range(s) == {s[i] : i \in DOMAIN s}
Reverse(s) == [i \in 1..Len(s) |-> s[Len(s) + 1 - i]]
Last(s) == s[Len(s)]
NoBase == 0

-----------------------------------------------------------------------------
(* CurRepository: the synchronous operations of raw.rs the distributed     *)
(* repository calls.                                                       *)

BRANCH == [finalized |-> "finalized", work |-> "work", fp |-> "fp"]

\* Local branch names in the order git2 lists them (by name; the `branch`
\* test of raw.rs relies on it).
BranchOrder ==
    <<"a-#", "a-1", "b-#", "b-1", "finalized", "fp", "p-1", "work", "x">>
BranchNames == Range(BranchOrder)

InBranches(b) == b \in DOMAIN branches
list_branches == SelectSeq(BranchOrder, InBranches)

RECURSIVE TrunkEntry(_)
\* The nearest ancestor of c on the trunk (c itself when it is there),
\* NoBase when c has none.
TrunkEntry(c) ==
    IF c = 0 THEN NoBase
    ELSE IF c \in Trunk THEN c
    ELSE IF c \in DOMAIN MergeParents
      THEN LET one == TrunkEntry(MergeParents[c][1])
               two == TrunkEntry(MergeParents[c][2])
           IN  IF one > two THEN one ELSE two
    ELSE TrunkEntry(Parent(c))

RECURSIVE find_merge_base(_, _)
\* git2 merge_base: the nearest common ancestor; NoBase when the two
\* commits share no history (git2 reports an error).
find_merge_base(a, b) ==
    IF a = 0 THEN NoBase
    ELSE IF a \in AncSet(b) THEN a
    ELSE IF a \in Trunk THEN TrunkEntry(b)
    ELSE IF a \in DOMAIN MergeParents
      THEN LET one == find_merge_base(MergeParents[a][1], b)
               two == find_merge_base(MergeParents[a][2], b)
           IN  IF one = NoBase THEN two
               ELSE IF two = NoBase THEN one
               ELSE IF one \in AncSet(two) THEN two
               ELSE one
    ELSE find_merge_base(Parent(a), b)

\* list_ancestors(commit_hash, max): raw.rs 675-737.  max is <<>> for
\* None and <<n>> for Some(n).  The code drops the first entry of the walk
\* (raw.rs 694) and then looks at oids[0], oids[1], ... in turn: with
\* Some(max) at the first max entries (raw.rs 697-706), with None up to the
\* first commit without parent (raw.rs 709-725).  It stops at the first
\* index that is out of bounds (the slice index panics) or whose commit has
\* more than one parent (Err); otherwise the call succeeds.
RECURSIVE LookAt(_, _, _)
\* The loop from index i on.  From a trunk commit t on, the walk is t, t-1,
\* ..., 1, all of one parent but the root: the walk has i + t - 1 entries.
LookAt(oids, i, max) ==
    IF max # <<>> /\ i > max[1] THEN "ok"
    ELSE IF i > Len(oids) THEN "panic"
    ELSE IF NumParents(oids[i]) > 1 THEN "err"
    ELSE IF oids[i] \in Trunk
      THEN IF max # <<>> /\ max[1] > i + oids[i] - 1 THEN "panic" ELSE "ok"
    ELSE IF max = <<>> /\ NumParents(oids[i]) = 0 THEN "ok"
    ELSE LookAt(oids, i + 1, max)

list_ancestors_outcome(c, max) == LookAt(Tail(Walk(c)), 1, max)

list_ancestors_panics(c, max) == list_ancestors_outcome(c, max) = "panic"

\* The value of a call that succeeds: raw.rs 706 and 726.
list_ancestors(c, max) ==
    LET oids == Tail(Walk(c))
    IN  IF max = <<>> THEN oids ELSE SubSeq(oids, 1, max[1])

\* delete_branch without the comparison with the checked-out branch.
DeleteRefusedNever(b) == FALSE

\* delete_branch: raw.rs 351-371.  Refused for the checked-out branch.
DeleteRefused(b) == b = head
BranchesWithout(brs, b) == [x \in DOMAIN brs \ {b} |-> brs[x]]

\* create_branch: raw.rs 268-286 (git2 branch(), force = false).
BranchesWith(brs, b, c) == [x \in DOMAIN brs \cup {b} |-> IF x = b THEN c ELSE brs[x]]

-----------------------------------------------------------------------------
(* The commit sequence verifier (simperby_common::verify), from its        *)
(* transition table: state (last_header, phase) plus the transactions      *)
(* collected in this run.                                                  *)

CsvNew(last) ==
    [phase |-> "Transactions", last |-> last, height |-> Height(last),
     txs |-> <<>>]

CsvRejected(st) == [st EXCEPT !.phase = "Rejected"]

\* The phases in which a Transaction is allowed, and a table that also
\* allows it after an ExtraAgendaTransaction.
TransactionPhasesLoose == {"Transactions", "ExtraAgenda"}

TransactionPhases == {"Transactions"}

\* The transition table: the event kinds allowed in a phase.
CsvAllowed(phase, k) ==
    \/ k = "Transaction" /\ phase \in TransactionPhases
    \/ k = "ExtraAgendaTransaction" /\ phase \in {"Transactions", "ExtraAgenda"}
    \/ k = "Agenda" /\ phase \in {"Transactions", "ExtraAgenda"}
    \/ k = "AgendaProof" /\ phase = "AgendaOpen"
    \/ k = "Block" /\ phase = "AgendaApproved"

\* The additional checks of the table's last column.
CsvChecks(st, c) ==
    /\ Kind(c) = "Agenda" => Height(c) = st.height + 1 /\ AgendaTxs(c) = st.txs
    /\ Kind(c) = "Block" => PrevBlock(c) = st.last /\ Height(c) = st.height + 1

\* The phase named in the Block row of the table.
PhaseAfterBlockTable == "BlockAwaiting"

\* The phase after a successful apply_commit(Block): "phase resets to
\* Transactions".
PhaseAfterBlock == "Transactions"

\* apply_commit(event of commit c).
CsvApply(st, c) ==
    LET k == Kind(c) IN
    IF ~CsvAllowed(st.phase, k) \/ ~CsvChecks(st, c) THEN CsvRejected(st)
    ELSE IF k = "Transaction" THEN [st EXCEPT !.txs = Append(@, c)]
    ELSE IF k = "ExtraAgendaTransaction" THEN [st EXCEPT !.phase = "ExtraAgenda"]
    ELSE IF k = "Agenda" THEN [st EXCEPT !.phase = "AgendaOpen"]
    ELSE IF k = "AgendaProof" THEN [st EXCEPT !.phase = "AgendaApproved"]
    ELSE [phase |-> PhaseAfterBlock, last |-> c, height |-> Height(c),
          txs |-> <<>>]

\* What apply_commit returns.
CsvResult(st, c) ==
    IF ~CsvAllowed(st.phase, Kind(c)) THEN "PhaseViolation"
    ELSE IF ~CsvChecks(st, c) THEN "CheckFailed"
    ELSE "ok"

-----------------------------------------------------------------------------
(* DistributedRepository: lib.rs.                                          *)

Reserved == {BRANCH.finalized, BRANCH.work, BRANCH.fp}

\* The name lib.rs 226/231 and 255 give every filed branch.
AgendaBranchName == "a-#"
BlockBranchName == "b-#"
\* The remote lib.rs 153 registers for every peer.
RemoteName == "yoonho"
\* lib.rs 389: list_ancestors(work_commit, Some(256)).
AncestorLimit == 256

\* What an operation hands back to the loop that called it.
Step(res, why, brs, vec, fbr) ==
    [res |-> res, fault |-> why, branches |-> brs, vec |-> vec, fbr |-> fbr]

\* get_last_finalized_block_header, lib.rs 70-81: "ok", or how it fails.
LastHeaderResult ==
    IF BRANCH.finalized \notin DOMAIN branches THEN <<"err", "locate_branch">>
    ELSE IF ~rawComplete THEN <<"panic", "read_semantic_commit unimplemented">>
    ELSE IF Kind(branches[BRANCH.finalized]) = "Undecodable"
      THEN <<"err", "finalized does not decode">>
    ELSE IF Kind(branches[BRANCH.finalized]) # "Block"
      THEN <<"err", "finalized is not on a block">>
    ELSE <<"ok", "">>

\* ---------------------------------------------------------------- clean

\* lib.rs 108-110: the three names the loop of clean skips.
CleanSkipsTwo(b) == b \in {BRANCH.work, BRANCH.finalized}
CleanSkips(b) == b \in Reserved

\* lib.rs 114-119 and 176-180: the branch's merge base with `finalized`
\* is not the tip of `finalized`.
Outdated(bt, ft) == find_merge_base(bt, ft) # ft

RECURSIVE CleanLoopOnce(_, _, _)
\* The loop leaving after its first deletion.
CleanLoopOnce(todo, brs, ft) ==
    IF todo = <<>> THEN <<"ok", brs>>
    ELSE LET b == Head(todo) IN
         IF CleanSkips(b) THEN CleanLoopOnce(Tail(todo), brs, ft)
         ELSE IF find_merge_base(brs[b], ft) = NoBase THEN <<"err", brs>>
         ELSE IF ~Outdated(brs[b], ft) THEN CleanLoopOnce(Tail(todo), brs, ft)
         ELSE IF DeleteRefused(b) THEN <<"err", brs>>
         ELSE <<"ok", BranchesWithout(brs, b)>>

RECURSIVE CleanLoop(_, _, _)
\* lib.rs 107-123 over the branches still to visit; brs is the branch map
\* so far.  Returns <<result, branch map>>.
CleanLoop(todo, brs, ft) ==
    IF todo = <<>> THEN <<"ok", brs>>
    ELSE LET b == Head(todo) IN
         IF CleanSkips(b) THEN CleanLoop(Tail(todo), brs, ft)
         ELSE IF find_merge_base(brs[b], ft) = NoBase THEN <<"err", brs>>
         ELSE IF ~Outdated(brs[b], ft) THEN CleanLoop(Tail(todo), brs, ft)
         ELSE IF DeleteRefused(b) THEN <<"err", brs>>
         ELSE CleanLoop(Tail(todo), BranchesWithout(brs, b), ft)

\* lib.rs 126-129: every listed remote is removed.
RemotesKept == remotes
RemotesAfterClean == {}

Snapshot == [branches |-> branches, remotes |-> remotes, head |-> head,
             created |-> Len(created)]

\* The operation that has just ended, as the next one remembers it.
LastOperation == [op |-> lastOp, outcome |-> outcome, peers |-> peers]

\* DistributedRepository::clean, lib.rs 100-134.
Clean ==
    /\ pc = "idle"
    /\ nOps < MaxOps
    /\ LET r == IF BRANCH.finalized \notin DOMAIN branches
                  THEN <<"err", branches>>
                  ELSE CleanLoop(list_branches, branches,
                                 branches[BRANCH.finalized])
       IN  /\ branches' = r[2]
           /\ remotes' = IF r[1] = "ok" THEN RemotesAfterClean ELSE remotes
           /\ outcome' = r[1]
           /\ fault' = IF r[1] = "ok" THEN "" ELSE "raw error"
    /\ lastOp' = "clean"
    /\ pre' = Snapshot
    /\ visited' = <<>>
    /\ nOps' = nOps + 1
    /\ prev' = LastOperation
    /\ UNCHANGED <<cwVars, rawVars, csvVars, rawComplete, head, detached, created, drVars>>

\* ---------------------------------------------------------------- fetch

\* lib.rs 151-158: one add_remote(RemoteName, ..) per peer; git2 refuses a
\* name that is already registered.  Returns <<result, remotes>>.
AddRemotes(k) ==
    IF k = 0 THEN <<"ok", remotes>>
    ELSE IF RemoteName \in remotes THEN <<"err", remotes>>
    ELSE IF k > 1 THEN <<"err", remotes \cup {RemoteName}>>
    ELSE <<"ok", remotes \cup {RemoteName}>>

\* lib.rs 199-208: the ancestors of the branch tip that are not ancestors
\* of the finalized tip, in the order list_ancestors returns them.
NewCommits(bt, ft) ==
    LET branch_ancestors == list_ancestors(bt, <<>>)
        finalized_ancestors == Range(list_ancestors(ft, <<>>))
        Fresh(c) == c \notin finalized_ancestors
    IN  SelectSeq(branch_ancestors, Fresh)

RECURSIVE VerifyNew(_, _)
\* lib.rs 216-222: decode and apply each new commit; a decoding error is
\* returned with `?`, a verifier error is unwrapped.
VerifyNew(st, new) ==
    IF new = <<>> THEN "ok"
    ELSE IF Kind(Head(new)) = "Undecodable" THEN "err"
    ELSE IF CsvApply(st, Head(new)).phase = "Rejected" THEN "panic"
    ELSE VerifyNew(CsvApply(st, Head(new)), Tail(new))

\* serde_json::from_str::<FinalizationProof>(body) of the `fp` commit.
ProofParses(c) == c = C.proofcommit

\* lib.rs 243: the header handed to verify_finalization_proof is
\* block_header_vec.get(0); <<>> when there is none (unwrap panics).
HeaderToVerify(vec, tip) == IF vec = <<>> THEN <<>> ELSE <<vec[1]>>

\* lib.rs 224-263: what fetch does with a verified branch b whose
\* `tip_commit_hash` is tip.
FileBranch(b, tip) ==
    IF Kind(tip) \in {"Agenda", "AgendaProof"} THEN
        IF AgendaBranchName \in DOMAIN branches
          THEN Step("err", "create_branch", branches,
                    block_header_vec, finalized_branches)
          ELSE Step("continue", "filed", BranchesWith(branches, AgendaBranchName, tip),
                    block_header_vec, finalized_branches)
    ELSE IF Kind(tip) = "Block" THEN
        IF BRANCH.fp \notin DOMAIN branches
          THEN Step("err", "locate_branch", branches,
                    block_header_vec, finalized_branches)
        ELSE IF ~ProofParses(branches[BRANCH.fp])
          THEN Step("panic", "fp body is no proof", branches,
                    block_header_vec, finalized_branches)
        ELSE IF HeaderToVerify(block_header_vec, tip) = <<>>
          THEN Step("panic", "block_header_vec.get(0) is None", branches,
                    block_header_vec, finalized_branches)
        ELSE IF HeaderToVerify(block_header_vec, tip)[1] \in FpVerifies
          THEN Step("continue", "candidate", branches,
                    Append(block_header_vec, tip),
                    Append(finalized_branches, b))
        ELSE IF BlockBranchName \in DOMAIN branches
          THEN Step("err", "create_branch", branches,
                    block_header_vec, finalized_branches)
        ELSE Step("continue", "filed", BranchesWith(branches, BlockBranchName, tip),
                  block_header_vec, finalized_branches)
    ELSE Step("continue", "moved", [branches EXCEPT ![b] = tip],
              block_header_vec, finalized_branches)

\* lib.rs 170: the loop of fetch visits every listed branch.
FetchSkips(b) == FALSE

\* One iteration of the loop of fetch, lib.rs 170-264, on branch b.
ProcessBranch(b) ==
    LET Stop(res, why) ==
            Step(res, why, branches, block_header_vec, finalized_branches)
        hdr == LastHeaderResult
    IN
    IF FetchSkips(b) THEN Stop("continue", "skipped")
    ELSE IF b \notin DOMAIN branches \/ BRANCH.finalized \notin DOMAIN branches
      THEN Stop("err", "locate_branch")
    ELSE LET bt == branches[b]
             ft == branches[BRANCH.finalized]
         IN
         IF find_merge_base(bt, ft) = NoBase THEN Stop("err", "find_merge_base")
         ELSE IF Outdated(bt, ft) THEN
             IF DeleteRefused(b) THEN Stop("err", "delete_branch")
             ELSE Step("continue", "outdated", BranchesWithout(branches, b),
                       block_header_vec, finalized_branches)
         ELSE IF hdr[1] # "ok" THEN Stop(hdr[1], hdr[2])
         ELSE IF Kind(bt) = "Undecodable" THEN Stop("err", "decode")
         ELSE IF list_ancestors_outcome(bt, <<>>) # "ok"
           THEN Stop(list_ancestors_outcome(bt, <<>>), "list_ancestors")
         ELSE IF list_ancestors_outcome(ft, <<>>) # "ok"
           THEN Stop(list_ancestors_outcome(ft, <<>>), "list_ancestors")
         ELSE LET new == NewCommits(bt, ft) IN
              IF new = <<>> THEN Stop("panic", "no new commit")
              ELSE IF Kind(Last(new)) = "Undecodable" THEN Stop("err", "decode")
              ELSE IF VerifyNew(CsvNew(ft), new) = "err"
                THEN Stop("err", "decode")
              ELSE IF VerifyNew(CsvNew(ft), new) = "panic"
                THEN Stop("panic", "apply_commit rejected")
              ELSE FileBranch(b, Last(new))

RECURSIVE MaxHeight(_)
MaxHeight(vec) ==
    IF Len(vec) = 1 THEN Height(vec[1])
    ELSE LET m == MaxHeight(Tail(vec))
         IN  IF Height(vec[1]) > m THEN Height(vec[1]) ELSE m

RECURSIVE DropLower(_, _, _)
\* lib.rs 276-284 from index i on: the branches of the candidates below the
\* highest height are deleted.  Returns <<result, branch map>>.
DropLower(i, hi, brs) ==
    IF i > Len(block_header_vec) THEN <<"ok", brs>>
    ELSE IF Height(block_header_vec[i]) = hi THEN DropLower(i + 1, hi, brs)
    ELSE IF finalized_branches[i] \notin DOMAIN brs
            \/ DeleteRefused(finalized_branches[i]) THEN <<"err", brs>>
    ELSE DropLower(i + 1, hi, BranchesWithout(brs, finalized_branches[i]))

\* lib.rs 265-299: the end of fetch, once every branch was visited.
FinishResult ==
    LET vec == block_header_vec
        Stop(res, why, brs) == Step(res, why, brs, vec, finalized_branches)
    IN
    IF vec = <<>> THEN Stop("panic", "no candidate: max() is None", branches)
    ELSE LET hi == MaxHeight(vec)
             top == {i \in 1..Len(vec) : Height(vec[i]) = hi}
             dropped == DropLower(1, hi, branches)
             survivor == finalized_branches[CHOOSE i \in top : \A j \in top : j <= i]
         IN
         IF dropped[1] = "err" THEN Stop("err", "delete_branch", dropped[2])
         ELSE IF Cardinality(top) > 1 THEN Stop("panic", "chain forked", dropped[2])
         ELSE IF survivor \notin DOMAIN dropped[2]
                 \/ BRANCH.finalized \notin DOMAIN dropped[2]
           THEN Stop("err", "locate_branch", dropped[2])
         ELSE Stop("ok", "",
                   [dropped[2] EXCEPT ![BRANCH.finalized] = dropped[2][survivor]])

\* DistributedRepository::fetch up to the loop, lib.rs 146-167: the remotes
\* are registered, fetch_all runs (it touches no local branch), the local
\* branches are listed.  net is what the network lets fetch_all return.
FetchStart(k, net) ==
    /\ pc = "idle"
    /\ nOps < MaxOps
    /\ LET added == AddRemotes(k)
           res == IF added[1] = "err" THEN "err"
                  ELSE IF ~rawComplete THEN "panic"
                  ELSE IF added[2] # {} THEN net
                  ELSE "ok"
       IN  /\ net = "err" => (added[1] = "ok" /\ rawComplete /\ added[2] # {})
           /\ remotes' = added[2]
           /\ IF res = "ok"
                THEN /\ pc' = "fetch_loop"
                     /\ pending' = list_branches
                     /\ outcome' = "running"
                     /\ fault' = ""
                ELSE /\ pc' = "idle"
                     /\ pending' = <<>>
                     /\ outcome' = res
                     /\ fault' = IF added[1] = "err" THEN "add_remote"
                                 ELSE IF res = "panic"
                                   THEN "fetch_all unimplemented"
                                 ELSE "fetch_all"
    /\ block_header_vec' = <<>>
    /\ finalized_branches' = <<>>
    /\ peers' = k
    /\ UNCHANGED block_commit
    /\ lastOp' = "fetch"
    /\ pre' = Snapshot
    /\ visited' = <<>>
    /\ nOps' = nOps + 1
    /\ prev' = LastOperation
    /\ UNCHANGED <<cwVars, rawVars, csvVars, rawComplete, branches, head, detached,
                   created>>

\* One iteration of `for branch in branches_after_fetch`.
FetchBranch ==
    /\ pc = "fetch_loop"
    /\ pending # <<>>
    /\ LET b == Head(pending)
           r == ProcessBranch(b)
       IN  /\ branches' = r.branches
           /\ block_header_vec' = r.vec
           /\ finalized_branches' = r.fbr
           /\ visited' = Append(visited, <<b, r.fault>>)
           /\ IF r.res = "continue"
                THEN /\ pending' = Tail(pending)
                     /\ UNCHANGED <<pc, outcome, fault>>
                ELSE /\ pending' = <<>>
                     /\ pc' = "idle"
                     /\ outcome' = r.res
                     /\ fault' = r.fault
    /\ UNCHANGED <<cwVars, rawVars, csvVars, rawComplete, head, detached, remotes, created,
                   peers, block_commit, lastOp, pre, nOps, prev>>

\* The code after the loop.
FetchFinish ==
    /\ pc = "fetch_loop"
    /\ pending = <<>>
    /\ LET r == FinishResult
       IN  /\ branches' = r.branches
           /\ outcome' = r.res
           /\ fault' = r.fault
    /\ pc' = "idle"
    /\ UNCHANGED <<cwVars, rawVars, csvVars, rawComplete, head, detached, remotes, created,
                   pending, block_header_vec, finalized_branches, peers,
                   block_commit,
                   lastOp, pre, visited, nOps, prev>>

\* -------------------------------------------------------- create_agenda

RECURSIVE CsvRun(_, _)
\* lib.rs 418-422: apply the commits in order, stopping at a rejection.
CsvRun(st, seq) ==
    IF seq = <<>> \/ st.phase = "Rejected" THEN st
    ELSE CsvRun(CsvApply(st, Head(seq)), Tail(seq))

\* lib.rs 390-396: the commits after `finalized` up to the entry before it
\* in the ancestor list, oldest first; <<"none">> when `finalized` is not
\* in the list (expect() panics).
Position(commits, c) ==
    IF c \in Range(commits)
      THEN CHOOSE i \in 1..Len(commits) :
               commits[i] = c /\ \A j \in 1..(i - 1) : commits[j] # c
      ELSE 0

\* lib.rs 447: the branch checked out before the agenda is committed.
AgendaCheckoutFinalized == BRANCH.finalized
AgendaCheckout == BRANCH.work

\* lib.rs 375-379: the merge base of `finalized` and `work` is not the
\* tip of `finalized`.
NotRebasedNever(last_header_commit, work_commit) == FALSE
NotRebased(last_header_commit, work_commit) ==
    find_merge_base(last_header_commit, work_commit) # last_header_commit

\* DistributedRepository::create_agenda, lib.rs 369-450, as
\* <<result, fault, commits to verify>>.
AgendaResult ==
    LET hdr == LastHeaderResult IN
    IF hdr[1] # "ok" THEN <<hdr[1], hdr[2], <<>> >>
    ELSE IF BRANCH.work \notin DOMAIN branches
      THEN <<"err", "locate_branch", <<>> >>
    ELSE LET work_commit == branches[BRANCH.work]
             last_header_commit == branches[BRANCH.finalized]
         IN
         IF find_merge_base(last_header_commit, work_commit) = NoBase
           THEN <<"err", "find_merge_base", <<>> >>
         ELSE IF NotRebased(last_header_commit, work_commit)
           THEN <<"err", "work should be rebased on finalized", <<>> >>
         ELSE IF list_ancestors_panics(work_commit, <<AncestorLimit>>)
           THEN <<"panic", "list_ancestors index out of bounds", <<>> >>
         ELSE IF list_ancestors_outcome(work_commit, <<AncestorLimit>>) = "err"
           THEN <<"err", "list_ancestors", <<>> >>
         ELSE LET commits == list_ancestors(work_commit, <<AncestorLimit>>)
                  position == Position(commits, last_header_commit)
              IN
              IF position = 0
                THEN <<"panic", "finalized is not in the ancestor list", <<>> >>
              ELSE LET todo == Reverse(SubSeq(commits, 1, position - 1)) IN
                   IF \E i \in DOMAIN todo : Kind(todo[i]) = "Undecodable"
                     THEN <<"err", "decode", todo>>
                   ELSE IF CsvRun(CsvNew(last_header_commit), todo).phase
                           = "Rejected"
                     THEN <<"err", "verification", todo>>
                   ELSE IF \E i \in DOMAIN todo : Kind(todo[i]) # "Transaction"
                     THEN <<"err", "work is not in the transaction phase", todo>>
                   ELSE <<"ok", "", todo>>

CreateAgenda ==
    /\ pc = "idle"
    /\ nOps < MaxOps
    /\ LET r == AgendaResult IN
       /\ outcome' = r[1]
       /\ fault' = r[2]
       /\ IF r[1] = "ok"
            THEN /\ Len(created) < MaxCreated
                 \* checkout_clean; checkout(work); create_semantic_commit:
                 \* the new commit is a child of HEAD and HEAD's branch
                 \* moves to it.
                 /\ head' = AgendaCheckout
                 /\ detached' = NoBase
                 /\ created' = Append(created,
                        [parent |-> branches[AgendaCheckout],
                         height |-> Height(branches[BRANCH.finalized]) + 1,
                         txs |-> r[3]])
                 /\ branches' = [branches EXCEPT
                        ![AgendaCheckout] = CreatedId(Len(created) + 1)]
            ELSE UNCHANGED <<head, detached, created, branches>>
    /\ lastOp' = "create_agenda"
    /\ pre' = Snapshot
    /\ visited' = <<>>
    /\ nOps' = nOps + 1
    /\ prev' = LastOperation
    /\ UNCHANGED <<cwVars, rawVars, csvVars, rawComplete, remotes, drVars>>

-----------------------------------------------------------------------------
(* Initial states and specifications *)

FinalizedTips == {C.block1, C.block2}
WorkTips == {C.tx, C.agenda2, C.block2, C.far}
ExtraNames == {"a-1", "p-1", "x"}
\* The commits each of them may point at: before `finalized` (outdated),
\* after it, undecodable, or unrelated to it.
ExtraTips(b) ==
    IF b = "a-1" THEN {C.initial, C.agenda2, C.block2, C.garbage}
    ELSE IF b = "p-1" THEN {C.initial, C.fork2, C.block3}
    ELSE {C.initial, C.agenda2, C.island}
AllTips == UNION {ExtraTips(b) : b \in ExtraNames}

\* No verifier is being driven.
NoVerifier == [phase |-> "none"]

NoOperation ==
    /\ pc = "idle"
    /\ pending = <<>>
    /\ block_header_vec = <<>>
    /\ finalized_branches = <<>>
    /\ peers = 0
    /\ block_commit = NoBase
    /\ lastOp = "none"
    /\ outcome = "none"
    /\ fault = ""
    /\ visited = <<>>
    /\ nOps = 0
    /\ pre = Snapshot
    /\ prev = [op |-> "none", outcome |-> "none", peers |-> 0]
    /\ rawArgs = [op |-> "none"]
    /\ rawResult = [res |-> "none"]

\* A repository right after RawRepository::init: no commit, no branch.
InitEmpty ==
    /\ branches = <<>>
    /\ head = "master"
    /\ detached = NoBase

\* The branch checked out at the start: `work`, or `x`, or `a-1` when it
\* is the only branch besides the reserved ones.
HeadChoices(S) ==
    {BRANCH.work} \cup (S \cap {"x"}) \cup (IF S = {"a-1"} THEN S ELSE {})

\* A repository holding the three reserved branches and up to MaxExtra
\* other branches, one of them checked out.
InitReserved ==
    \E fin \in FinalizedTips, w \in WorkTips, S \in SUBSET ExtraNames :
        /\ Cardinality(S) <= MaxExtra
        /\ w = C.far => S = {}
        /\ \E f \in [S -> AllTips], hd \in HeadChoices(S) :
            /\ \A b \in S : f[b] \in ExtraTips(b)
            /\ branches = [b \in Reserved \cup S |->
                              IF b = BRANCH.finalized THEN fin
                              ELSE IF b = BRANCH.work THEN w
                              ELSE IF b = BRANCH.fp THEN C.proofcommit
                              ELSE f[b]]
            /\ head = hd
            /\ detached = NoBase

\* While the unimplemented operations panic, fetch and create_agenda end
\* before they look at a branch: one branch besides the reserved ones is
\* enough there.
InitRepo ==
    /\ rawComplete \in BOOLEAN
    /\ remotes = {}
    /\ created = <<>>
    /\ (InitEmpty \/ InitReserved)
    /\ ~rawComplete => Cardinality(DOMAIN branches \ Reserved) <= 1

Init == InitCW /\ InitRepo /\ NoOperation /\ csv = NoVerifier

\* ------------------------------------------------------------------ sync

\* The commits sync is called with.
SyncTargets == {C.old, C.block2}

\* DistributedRepository::sync(block_commit), lib.rs 333-335: the body is
\* unimplemented!().
Sync(t) ==
    /\ pc = "idle"
    /\ nOps < MaxOps
    /\ block_commit' = t
    /\ outcome' = "panic"
    /\ fault' = "sync unimplemented"
    /\ lastOp' = "sync"
    /\ pre' = Snapshot
    /\ visited' = <<>>
    /\ nOps' = nOps + 1
    /\ prev' = LastOperation
    /\ UNCHANGED <<cwVars, rawVars, csvVars, repoVars,
                   pc, pending, block_header_vec, finalized_branches, peers>>

Next ==
    \/ Clean
    \/ \E k \in 0..MaxPeers, net \in {"ok", "err"} : FetchStart(k, net)
    \/ FetchBranch
    \/ FetchFinish
    \/ CreateAgenda

Spec == Init /\ [][Next]_vars

\* sync called on the same repositories.  It changes nothing the other
\* operations read, so it is followed on its own.
NextSync == \E t \in SyncTargets : Sync(t)

SpecSync == Init /\ [][NextSync]_vars

\* ------------------------------------------- direct calls of CurRepository

\* The commits and the limits the calls are made with.
RawCommits ==
    {C.initial, 2, 3, C.old, C.block1, C.tx, C.agenda2, C.block2, C.far,
     C.fork2, C.garbage, C.early2, C.island, C.merge, C.onmerge}
RawLimits == {<<>>, <<1>>, <<2>>, <<3>>, <<AncestorLimit>>}

\* A CommitHash that names no object of the repository.
UnknownHash == 999
\* The hashes and the branch names the branch and HEAD calls are made with.
RawHashes == {C.block1, C.agenda2, UnknownHash}
RawNames == {BRANCH.finalized, BRANCH.work, "x", "p-1"}

\* The call before this one, and how it ended.
LastRawCall == [op |-> rawArgs.op, outcome |-> rawResult.res, peers |-> 0]

\* CurRepository::list_ancestors(c, max), raw.rs 675-737.
ListAncestors(c, max) ==
    /\ nOps < MaxOps
    /\ rawArgs' = [op |-> "list_ancestors", commit |-> c, max |-> max]
    /\ rawResult' =
          [res |-> list_ancestors_outcome(c, max),
           value |-> IF list_ancestors_outcome(c, max) = "ok"
                       THEN list_ancestors(c, max) ELSE <<>>]
    /\ nOps' = nOps + 1
    /\ prev' = LastRawCall
    /\ UNCHANGED <<cwVars, csvVars, repoVars, drVars,
                   lastOp, outcome, fault, pre, visited>>

\* git2 Reference::set_target and Repository::set_head_detached look the
\* object up and fail when the repository has none of that id.
ObjectExists(c) == c \in Commits

\* CurRepository::move_branch(b, c), raw.rs 333-348: find_branch fails for
\* a missing branch (`?`); the result of set_target is bound to
\* `_set_branch` and dropped, and the call returns Ok(()).
MoveBranch(b, c) ==
    /\ nOps < MaxOps
    /\ rawArgs' = [op |-> "move_branch", branch |-> b, commit |-> c]
    /\ IF ~InBranches(b)
         THEN /\ rawResult' = [res |-> "err", value |-> <<>>]
              /\ UNCHANGED branches
         ELSE /\ rawResult' = [res |-> "ok", value |-> <<>>]
              /\ branches' = IF ObjectExists(c)
                               THEN [branches EXCEPT ![b] = c]
                               ELSE branches
    /\ nOps' = nOps + 1
    /\ prev' = LastRawCall
    /\ pre' = Snapshot
    /\ UNCHANGED <<cwVars, csvVars, rawComplete, head, detached, remotes, created,
                   drVars, lastOp, outcome, fault, visited>>

\* CurRepository::delete_branch(b), raw.rs 351-371: find_branch fails for a
\* missing branch; the branch whose name is HEAD's shorthand is refused;
\* any other branch is deleted.
DeleteBranch(b) ==
    /\ nOps < MaxOps
    /\ rawArgs' = [op |-> "delete_branch", branch |-> b]
    /\ IF ~InBranches(b) \/ DeleteRefused(b)
         THEN /\ rawResult' = [res |-> "err", value |-> <<>>]
              /\ UNCHANGED branches
         ELSE /\ rawResult' = [res |-> "ok", value |-> <<>>]
              /\ branches' = BranchesWithout(branches, b)
    /\ nOps' = nOps + 1
    /\ prev' = LastRawCall
    /\ pre' = Snapshot
    /\ UNCHANGED <<cwVars, csvVars, rawComplete, head, detached, remotes, created,
                   drVars, lastOp, outcome, fault, visited>>

\* CurRepository::checkout(b), raw.rs 576-592: revparse_single fails for a
\* missing branch (`?`); the result of checkout_tree is dropped; set_head
\* makes HEAD a symbolic reference to the branch.
Checkout(b) ==
    /\ nOps < MaxOps
    /\ rawArgs' = [op |-> "checkout", branch |-> b]
    /\ IF ~InBranches(b)
         THEN /\ rawResult' = [res |-> "err", value |-> <<>>]
              /\ UNCHANGED <<head, detached>>
         ELSE /\ rawResult' = [res |-> "ok", value |-> <<>>]
              /\ head' = b
              /\ detached' = NoBase
    /\ nOps' = nOps + 1
    /\ prev' = LastRawCall
    /\ pre' = Snapshot
    /\ UNCHANGED <<cwVars, csvVars, rawComplete, branches, remotes, created,
                   drVars, lastOp, outcome, fault, visited>>

\* The shorthand of a detached HEAD.
DetachedHead == "HEAD"

\* CurRepository::checkout_detach(c), raw.rs 595-605: the result of
\* set_head_detached is dropped and the call returns Ok(()).
CheckoutDetach(c) ==
    /\ nOps < MaxOps
    /\ rawArgs' = [op |-> "checkout_detach", commit |-> c]
    /\ rawResult' = [res |-> "ok", value |-> <<>>]
    /\ IF ObjectExists(c)
         THEN /\ head' = DetachedHead
              /\ detached' = c
         ELSE UNCHANGED <<head, detached>>
    /\ nOps' = nOps + 1
    /\ prev' = LastRawCall
    /\ pre' = Snapshot
    /\ UNCHANGED <<cwVars, csvVars, rawComplete, branches, remotes, created,
                   drVars, lastOp, outcome, fault, visited>>

\* CurRepository::get_head, raw.rs 612-622: the commit HEAD resolves to.
get_head == IF detached # NoBase THEN detached ELSE branches[head]

NextRaw ==
    \/ \E c \in RawCommits, max \in RawLimits : ListAncestors(c, max)
    \/ \E b \in RawNames, c \in RawHashes : MoveBranch(b, c)
    \/ \E b \in RawNames : DeleteBranch(b)
    \/ \E b \in RawNames : Checkout(b)
    \/ \E c \in RawHashes : CheckoutDetach(c)

\* One repository, called directly: the reserved branches and `x`, with
\* `work` checked out.
InitRaw ==
    /\ InitCW
    /\ rawComplete = FALSE
    /\ remotes = {}
    /\ created = <<>>
    /\ branches = [b \in Reserved \cup {"x"} |->
                      IF b = BRANCH.finalized THEN C.block1
                      ELSE IF b = BRANCH.work THEN C.tx
                      ELSE IF b = BRANCH.fp THEN C.proofcommit
                      ELSE C.agenda2]
    /\ head = BRANCH.work
    /\ detached = NoBase
    /\ NoOperation
    /\ csv = NoVerifier

SpecRaw == InitRaw /\ [][NextRaw]_vars

\* ------------------------------- the commit sequence verifier on its own

\* The commits whose events are applied.
CsvEvents ==
    {C.tx, C.extra, C.agenda2, C.agenda3, C.proof2, C.block2, C.block3,
     C.fork2}

\* apply_commit(event of c) on the verifier: an accepted event advances it,
\* a rejected one is reported and leaves it as it was.
ApplyCommit(c) ==
    /\ nOps < MaxEvents
    /\ rawArgs' = [op |-> "apply_commit", commit |-> c, phase |-> csv.phase]
    /\ rawResult' = [res |-> CsvResult(csv, c), value |-> <<>>]
    /\ csv' = IF CsvResult(csv, c) = "ok" THEN CsvApply(csv, c) ELSE csv
    /\ nOps' = nOps + 1
    /\ prev' = LastRawCall
    /\ UNCHANGED <<cwVars, repoVars, drVars,
                   lastOp, outcome, fault, pre, visited>>

NextCsv == \E c \in CsvEvents : ApplyCommit(c)

\* CommitSequenceVerifier::new(last_header, reserved_state) on the block
\* of height 1, beside a repository that is left alone.
InitCsv ==
    /\ InitCW
    /\ rawComplete = FALSE
    /\ remotes = {}
    /\ created = <<>>
    /\ InitEmpty
    /\ NoOperation
    /\ csv = CsvNew(C.block1)

SpecCsv == InitCsv /\ [][NextCsv]_vars

\* The wrapper alone, over one repository.
InitWrapper ==
    /\ InitCW
    /\ rawComplete = FALSE
    /\ remotes = {}
    /\ created = <<>>
    /\ InitEmpty
    /\ NoOperation
    /\ csv = NoVerifier

SpecCW == InitWrapper /\ [][NextCW]_vars

-----------------------------------------------------------------------------
(* What the specification of fetch-and-integrate (4.5.3) makes of a        *)
(* repository, used to state its claims on the state a fetch started from. *)

\* The commits of a branch after the finalized tip, parent first, the
\* branch tip last.
SpecNewCommits(bt, ft) ==
    LET Fresh(c) == c \notin AncSet(ft) IN Reverse(SelectSeq(Walk(bt), Fresh))

\* The branch descends from the finalized tip and its new commits decode
\* and are accepted by a fresh verifier.
SpecVerified(brs, b) ==
    LET ft == brs[BRANCH.finalized]
        new == SpecNewCommits(brs[b], ft)
    IN  /\ find_merge_base(brs[b], ft) = ft
        /\ \A i \in DOMAIN new : Kind(new[i]) # "Undecodable"
        /\ CsvRun(CsvNew(ft), new).phase # "Rejected"

\* The finalization candidates: verified branches whose tip is a Block the
\* proof on `fp` verifies.
SpecCandidates(brs) ==
    {b \in DOMAIN brs \ Reserved :
        /\ SpecVerified(brs, b)
        /\ Kind(brs[b]) = "Block"
        /\ brs[b] \in FpVerifies}

\* The candidates of maximum height.
SpecTop(brs) ==
    {b \in SpecCandidates(brs) :
        \A o \in SpecCandidates(brs) : Height(brs[o]) <= Height(brs[b])}

\* The names of the p-, a- and b- families.
Family == {"a-#", "a-1", "b-#", "b-1", "p-1"}

\* A fetch over a repository holding the three reserved branches has ended,
\* every raw operation behaving as documented, no peer being given and the
\* network not failing.
FetchEnded ==
    /\ lastOp = "fetch"
    /\ pc = "idle"
    /\ rawComplete
    /\ peers = 0
    /\ fault # "fetch_all"
    /\ Reserved \subseteq DOMAIN pre.branches

-----------------------------------------------------------------------------
(* Claims *)

\* C1: on one wrapper, no two synchronous repository calls execute at the
\* same time, and a call starts only when the lock is free and the handle
\* is back in the slot (the previous call returned it and released the
\* lock) and no other call is executing.
C1_CallsTotallyOrdered ==
    [][ /\ Cardinality({t \in Tasks : cwWorker'[t] = "running"}) <= 1
        /\ \A t \in Tasks :
             (cwWorker[t] # "running" /\ cwWorker'[t] = "running")
               => /\ LockFree
                  /\ cwSlot
                  /\ \A o \in Tasks : cwWorker[o] # "running" ]_vars

\* A second call is executing after a first one completed, while a third
\* one waits for the lock.
C1_Witness ==
    \E a, b, c \in Tasks :
        /\ cwPc[a] = "done"
        /\ cwWorker[b] = "running" /\ cwLock = b
        /\ cwPc[c] = "waiting"

\* C2: after a wrapper call whose worker panicked, the handle is back in
\* the guarded slot (once the call has released the lock), so the next call
\* finds it.
C2_HandleSurvivesWorkerPanic ==
    \A t \in Tasks :
        (cwPc[t] = "panicked" /\ cwWorker[t] = "panicked" /\ LockFree)
          => cwSlot

\* `work` descends from the tip of `finalized`.
WorkOnFinalized(brs) ==
    /\ {BRANCH.work, BRANCH.finalized} \subseteq DOMAIN brs
    /\ find_merge_base(brs[BRANCH.work], brs[BRANCH.finalized])
         = brs[BRANCH.finalized]

C6_EmptyFetchIsNoOp ==
    FetchEnded
      => /\ outcome = "ok"
         /\ branches = pre.branches
         /\ remotes = pre.remotes

\* C7: when the branches a fetch works on give two or more finalization
\* candidates of the maximum height, the fetch ends with the fatal-fork
\* outcome and `finalized` is where it was.
C7_ForkIsFatal ==
    (FetchEnded
       /\ pre.head = BRANCH.work
       /\ DOMAIN pre.branches \ Reserved = SpecCandidates(pre.branches)
       /\ Cardinality(SpecTop(pre.branches)) >= 2)
      => /\ fault = "chain forked"
         /\ branches[BRANCH.finalized] = pre.branches[BRANCH.finalized]

\* C8: when the branches a fetch works on give finalization candidates with
\* exactly one of the maximum height, the fetch moves `finalized` to that
\* candidate's tip and the branches of the lower candidates are deleted.
C8_HighestCandidateFinalized ==
    (FetchEnded
       /\ pre.head = BRANCH.work
       /\ DOMAIN pre.branches \ Reserved = SpecCandidates(pre.branches)
       /\ Cardinality(SpecTop(pre.branches)) = 1)
      => /\ outcome = "ok"
         /\ \A b \in SpecTop(pre.branches) :
                branches[BRANCH.finalized] = pre.branches[b]
         /\ \A b \in SpecCandidates(pre.branches) \ SpecTop(pre.branches) :
                b \notin DOMAIN branches

\* C9: a decoding error met while a fetch works on a branch deletes that
\* branch and nothing else: the fetch goes on (it does not end there with
\* an error or a panic).
C9_DecodeErrorDropsBranchOnly ==
    \A i \in DOMAIN visited :
        (lastOp = "fetch" /\ visited[i][2] = "decode"
           /\ visited[i][1] \notin Reserved)
          => /\ visited[i][1] \notin DOMAIN branches
             /\ ~(pc = "idle" /\ i = Len(visited)
                    /\ outcome \in {"err", "panic"})

\* C10: a successful clean neither deletes nor moves `finalized`, `work`,
\* `fp`, nor any p-/a-/b- branch whose merge base with `finalized` is the
\* finalized tip.
C10_CleanKeeps ==
    (lastOp = "clean" /\ outcome = "ok")
      => \A b \in DOMAIN pre.branches :
            (\/ b \in Reserved
             \/ /\ b \in Family
                /\ ~Outdated(pre.branches[b], pre.branches[BRANCH.finalized]))
              => /\ b \in DOMAIN branches
                 /\ branches[b] = pre.branches[b]

\* A successful clean deleted a branch, kept a p-/a-/b- branch that is up to
\* date, and kept `fp` although `fp` is behind `finalized`.
C10_Witness ==
    /\ lastOp = "clean" /\ outcome = "ok"
    /\ DOMAIN branches # DOMAIN pre.branches
    /\ \E b \in Family \cap DOMAIN branches :
          ~Outdated(pre.branches[b], pre.branches[BRANCH.finalized])
    /\ Outdated(pre.branches[BRANCH.fp], pre.branches[BRANCH.finalized])

\* C11: after a successful clean every remaining branch is `finalized`,
\* `work`, `fp`, or a p-/a-/b- branch whose merge base with `finalized` is
\* the finalized tip; every other branch is gone.
C11_CleanLeavesOnlyListed ==
    (lastOp = "clean" /\ outcome = "ok")
      => \A b \in DOMAIN branches :
            \/ b \in Reserved
            \/ /\ b \in Family
               /\ ~Outdated(branches[b], branches[BRANCH.finalized])

\* C12: after a successful clean the repository has no remotes.
C12_CleanRemovesRemotes ==
    (lastOp = "clean" /\ outcome = "ok") => remotes = {}

\* A successful clean of a repository that had a remote.
C12_Witness ==
    /\ lastOp = "clean" /\ outcome = "ok"
    /\ pre.remotes # {}
    /\ remotes = {}

\* C13: a clean that runs right after a successful clean succeeds and
\* leaves the branches, their tips and the remotes as the first left them.
C13_CleanIdempotent ==
    [][ (lastOp = "clean" /\ outcome = "ok"
           /\ lastOp' = "clean" /\ nOps' = nOps + 1)
          => /\ outcome' = "ok"
             /\ branches' = branches
             /\ remotes' = remotes ]_vars

\* A second clean has run right after a first, successful one, on a
\* repository that still holds a branch besides the reserved ones.
C13_Witness ==
    /\ lastOp = "clean" /\ outcome = "ok"
    /\ prev.op = "clean" /\ prev.outcome = "ok"
    /\ DOMAIN branches # Reserved
    /\ branches = pre.branches

\* C15: a fetch called again with the same peer list after a previous
\* fetch does not fail because of the remote the previous call registered.
C15_FetchRetry ==
    (lastOp = "fetch" /\ pc = "idle"
       /\ prev.op = "fetch" /\ prev.peers = peers /\ peers = 1)
      => fault # "add_remote"

\* The commits on `work` after the finalized tip, the `work` tip included,
\* parent first, at the start of the last operation.
WorkCommits ==
    SpecNewCommits(pre.branches[BRANCH.work], pre.branches[BRANCH.finalized])

\* create_agenda has ended on a repository that held `work` and
\* `finalized`.
AgendaEnded ==
    /\ lastOp = "create_agenda"
    /\ pc = "idle"
    /\ {BRANCH.work, BRANCH.finalized} \subseteq DOMAIN pre.branches

\* No commit was created and no branch moved by the last operation.
NothingCreated ==
    /\ Len(created) = pre.created
    /\ branches = pre.branches

\* C16: when `work` is not a descendant of the finalized tip, create_agenda
\* does not succeed and creates no commit; it returns an error when every
\* raw operation behaves as documented.
C16_NotRebasedIsError ==
    (AgendaEnded /\ ~WorkOnFinalized(pre.branches))
      => /\ outcome # "ok"
         /\ NothingCreated
         /\ rawComplete => outcome = "err"

\* create_agenda refused a `work` that is behind `finalized`.
C16_Witness ==
    /\ AgendaEnded /\ rawComplete
    /\ ~WorkOnFinalized(pre.branches)
    /\ outcome = "err"
    /\ fault = "work should be rebased on finalized"
    /\ NothingCreated

\* C17: a successful create_agenda over a `work` made of transactions adds
\* on top of `work` an Agenda of height last finalized height + 1 that
\* covers every transaction on `work` after the finalized tip, the `work`
\* tip included, parent first.
C17_AgendaCoversWork ==
    (AgendaEnded /\ outcome = "ok"
       /\ \A i \in DOMAIN WorkCommits : Kind(WorkCommits[i]) = "Transaction")
      => LET agenda == created[Len(created)] IN
         /\ agenda.parent = pre.branches[BRANCH.work]
         /\ branches[BRANCH.work] = CreatedId(Len(created))
         /\ agenda.height = Height(pre.branches[BRANCH.finalized]) + 1
         /\ agenda.txs = WorkCommits

\* C18: create_agenda returns an error and creates no commit when a commit
\* on `work` after the finalized tip, the `work` tip included, is not a
\* Transaction.
C18_NonTransactionIsError ==
    (AgendaEnded /\ rawComplete /\ WorkOnFinalized(pre.branches)
       /\ \E i \in DOMAIN WorkCommits : Kind(WorkCommits[i]) # "Transaction")
      => /\ outcome = "err"
         /\ NothingCreated

\* C19: when more than 256 commits lie between the finalized tip and the
\* `work` tip, create_agenda returns an error and creates no commit.
C19_TooFarIsError ==
    (AgendaEnded /\ rawComplete /\ WorkOnFinalized(pre.branches)
       /\ Len(WorkCommits) > AncestorLimit)
      => /\ outcome = "err"
         /\ NothingCreated

\* C20: list_ancestors fails when the commit it starts from has more than
\* one parent.
C20_MergeStartIsError ==
    (rawArgs.op = "list_ancestors" /\ NumParents(rawArgs.commit) > 1)
      => rawResult.res = "err"

\* A commit whose history is linear: neither it nor any of its ancestors
\* is a merge.
LinearHistory(c) == \A x \in AncSet(c) : NumParents(x) <= 1

RECURSIVE NthAncestor(_, _)
\* The i-th ancestor of c along the parents: 1 is the direct parent.
NthAncestor(c, i) ==
    IF i = 0 THEN c
    ELSE IF c \in Trunk THEN c - i
    ELSE NthAncestor(Parent(c), i - 1)

\* C21: on a linear history where h has n ancestors, list_ancestors(h, max)
\* succeeds and returns the ancestors nearest parent first, without h: all
\* n for max = None, the first min(max, n) for max = Some(max), also when
\* max exceeds n.
C21_LinearAncestors ==
    (rawArgs.op = "list_ancestors" /\ LinearHistory(rawArgs.commit)) =>
        LET h == rawArgs.commit
            n == Cardinality(AncSet(h)) - 1
            k == IF rawArgs.max = <<>> THEN n
                 ELSE IF rawArgs.max[1] < n THEN rawArgs.max[1] ELSE n
        IN  /\ rawResult.res = "ok"
            /\ rawResult.value = [i \in 1..k |-> NthAncestor(h, i)]

\* C22: move_branch(name, hash) returns an error when the branch does not
\* exist or the hash names no commit, and returns success only if the
\* branch points at hash afterwards.
C22_MoveBranchChecked ==
    rawArgs.op = "move_branch" =>
        /\ (rawArgs.branch \notin DOMAIN pre.branches
              \/ ~ObjectExists(rawArgs.commit)) => rawResult.res = "err"
        /\ rawResult.res = "ok" =>
              /\ InBranches(rawArgs.branch)
              /\ branches[rawArgs.branch] = rawArgs.commit

\* C23: delete_branch(name) on the checked-out branch returns an error and
\* leaves every branch in place; on any other existing branch it succeeds,
\* removes that branch and leaves all other branches as they were.
C23_DeleteBranch ==
    (rawArgs.op = "delete_branch" /\ rawArgs.branch \in DOMAIN pre.branches)
      => IF pre.head = rawArgs.branch
           THEN rawResult.res = "err" /\ branches = pre.branches
           ELSE /\ rawResult.res = "ok"
                /\ DOMAIN branches = DOMAIN pre.branches \ {rawArgs.branch}
                /\ \A x \in DOMAIN branches : branches[x] = pre.branches[x]

\* A branch that is not checked out was deleted, then the deletion of the
\* checked-out branch was refused.
C23_Witness ==
    /\ prev.op = "delete_branch" /\ prev.outcome = "ok"
    /\ rawArgs.op = "delete_branch" /\ rawResult.res = "err"
    /\ pre.head = rawArgs.branch
    /\ rawArgs.branch \in DOMAIN branches
    /\ Cardinality(DOMAIN branches) < Cardinality(Reserved) + 1

\* C24: whenever checkout_detach(hash) returns success, HEAD is detached
\* and points at hash (get_head returns hash), and no branch has changed.
C24_DetachedAtHash ==
    (rawArgs.op = "checkout_detach" /\ rawResult.res = "ok") =>
        /\ head = DetachedHead
        /\ get_head = rawArgs.commit
        /\ branches = pre.branches

\* The (phase, event) pairs of the transition table.
TransitionTable ==
    {<<"Transactions", "Transaction">>,
     <<"Transactions", "ExtraAgendaTransaction">>,
     <<"Transactions", "Agenda">>,
     <<"ExtraAgenda", "Agenda">>,
     <<"ExtraAgenda", "ExtraAgendaTransaction">>,
     <<"AgendaOpen", "AgendaProof">>,
     <<"AgendaApproved", "Block">>}

\* C25: the verifier accepts an event only for a (phase, event) pair of
\* its transition table, and rejects every other pair as a PhaseViolation.
C25_OnlyTablePairs ==
    rawArgs.op = "apply_commit" =>
        LET pair == <<rawArgs.phase, Kind(rawArgs.commit)>> IN
        /\ rawResult.res = "ok" => pair \in TransitionTable
        /\ pair \notin TransitionTable => rawResult.res = "PhaseViolation"

\* A Transaction was refused right after an ExtraAgendaTransaction had been
\* accepted.
C25_Witness ==
    /\ prev.op = "apply_commit" /\ prev.outcome = "ok"
    /\ csv.phase = "ExtraAgenda"
    /\ rawArgs.op = "apply_commit"
    /\ rawArgs.phase = "ExtraAgenda"
    /\ Kind(rawArgs.commit) = "Transaction"
    /\ rawResult.res = "PhaseViolation"

SyncDescends ==
    find_merge_base(block_commit, pre.branches[BRANCH.finalized])
        = pre.branches[BRANCH.finalized]

\* The commits from the finalized tip to the target are accepted by a fresh
\* verifier, the target is a block, and the proof on `fp` is a proof of it.
SyncVerifies ==
    LET ft == pre.branches[BRANCH.finalized]
        new == SpecNewCommits(block_commit, ft)
    IN  /\ \A i \in DOMAIN new : Kind(new[i]) # "Undecodable"
        /\ CsvRun(CsvNew(ft), new).phase # "Rejected"
        /\ Kind(block_commit) = "Block"
        /\ block_commit \in FpVerifies

\* C27: sync(target) fails and leaves `finalized` and `fp` unchanged when
\* target does not descend from the `finalized` tip; when it descends from
\* it, its intermediate commits verify and the proof on `fp` matches, sync
\* succeeds and moves `finalized` to target.
C27_Sync ==
    (lastOp = "sync" /\ BRANCH.finalized \in DOMAIN pre.branches) =>
        IF ~SyncDescends
          THEN outcome # "ok" /\ branches = pre.branches
          ELSE SyncVerifies =>
                 /\ outcome = "ok"
                 /\ branches[BRANCH.finalized] = block_commit

\* A fetch over a repository holding the three reserved branches has ended,
\* every raw operation behaving as documented, the remotes registered and
\* the network not failing.
FetchRan ==
    /\ lastOp = "fetch"
    /\ pc = "idle"
    /\ rawComplete
    /\ fault \notin {"add_remote", "fetch_all"}
    /\ Reserved \subseteq DOMAIN pre.branches

\* C28: a fetch none of whose branches yields a finalization candidate
\* completes successfully and leaves `finalized` where it was.
C28_NoCandidateIsOk ==
    (FetchRan /\ SpecCandidates(pre.branches) = {})
      => /\ outcome = "ok"
         /\ BRANCH.finalized \in DOMAIN branches
         /\ branches[BRANCH.finalized] = pre.branches[BRANCH.finalized]

\* The branches besides the reserved ones that were outdated when the last
\* operation started: their merge base with the finalized tip is not the
\* finalized tip.
OutdatedBefore ==
    {b \in DOMAIN pre.branches \ Reserved :
        find_merge_base(pre.branches[b], pre.branches[BRANCH.finalized])
            # pre.branches[BRANCH.finalized]}

\* C29: a fetch deletes every branch besides the reserved ones whose merge
\* base with the finalized tip differs from the finalized tip, without
\* verifying it, and goes on with the next branch.
C29_OutdatedDeleted ==
    FetchRan =>
        \A b \in OutdatedBefore :
            /\ b \notin DOMAIN branches
            /\ <<b, "outdated">> \in Range(visited)

\* C30: the per-branch step of fetch (outdated check, verification of the
\* new commits, classification of the tip) is applied to no reserved
\* branch, and no reserved branch is deleted.
C30_ReservedNotProcessed ==
    FetchRan =>
        /\ \A i \in DOMAIN visited : visited[i][1] \notin Reserved
        /\ Reserved \subseteq DOMAIN branches

\* The fetch loop is about to work on a branch besides the reserved ones
\* that is not outdated and whose ancestors list_ancestors returns.
FetchAtFreshBranch ==
    /\ pc = "fetch_loop"
    /\ pending # <<>>
    /\ rawComplete
    /\ Head(pending) \notin Reserved
    /\ {Head(pending), BRANCH.finalized} \subseteq DOMAIN branches
    /\ ~Outdated(branches[Head(pending)], branches[BRANCH.finalized])
    /\ list_ancestors_outcome(branches[Head(pending)], <<>>) = "ok"
    /\ list_ancestors_outcome(branches[BRANCH.finalized], <<>>) = "ok"

\* C31: for a branch that is not outdated, the sequence fetch feeds to the
\* fresh verifier is the commits that are the branch tip or its ancestors
\* but not the finalized tip or its ancestors, oldest first and the branch
\* tip last; the finalized tip is not in it; the commit decoded to classify
\* the branch is the branch tip.
C31_NewCommitsFed ==
    FetchAtFreshBranch =>
        LET bt == branches[Head(pending)]
            ft == branches[BRANCH.finalized]
            new == NewCommits(bt, ft)
        IN  /\ new = SpecNewCommits(bt, ft)
            /\ ft \notin Range(new)
            /\ new # <<>> => Last(new) = bt

\* The branches a fetch has to file as agenda branches: verified branches
\* besides the reserved ones whose tip is an Agenda or an AgendaProof.
SpecAgendaBranches(brs) ==
    {b \in DOMAIN brs \ Reserved :
        /\ SpecVerified(brs, b)
        /\ Kind(brs[b]) \in {"Agenda", "AgendaProof"}}

\* Names of the a- family with a decimal index.
DecimalAgendaNames == {"a-1", "a-2", "a-3"}

\* C32: for every branch with an Agenda or AgendaProof tip that a fetch
\* files, the fetch has created a branch a-<n> at that tip, n a decimal
\* index no a- branch had; two branches filed by one fetch get different
\* names.
C32_AgendaBranchesFiled ==
    FetchRan =>
        \E f \in [SpecAgendaBranches(pre.branches) -> DecimalAgendaNames] :
            /\ \A b, o \in DOMAIN f : f[b] = f[o] => b = o
            /\ \A b \in DOMAIN f :
                 /\ f[b] \notin DOMAIN pre.branches
                 /\ f[b] \in DOMAIN branches
                 /\ branches[f[b]] = pre.branches[b]

\* The verified branches besides the reserved ones whose tip is a Block.
SpecBlockBranches(brs) ==
    {b \in DOMAIN brs \ Reserved :
        SpecVerified(brs, b) /\ Kind(brs[b]) = "Block"}

\* Names of the b- family with a decimal index.
DecimalBlockNames == {"b-1", "b-2", "b-3"}

\* C33: for a branch whose tip is a Block H, fetch verifies the proof on
\* `fp` against H: when it verifies, the branch is a finalization candidate
\* (the fetch ends in the fork panic, or with `finalized` on a highest
\* candidate); when it does not, a branch b-<n> is created at the branch
\* tip and the fetch goes on (it does not end on that branch).
C33_BlockBranches ==
    FetchRan =>
        \A b \in SpecBlockBranches(pre.branches) :
            IF pre.branches[b] \in FpVerifies
              THEN \/ fault = "chain forked"
                   \/ /\ outcome = "ok"
                      /\ branches[BRANCH.finalized] \in
                           {pre.branches[o] : o \in SpecTop(pre.branches)}
              ELSE /\ \E n \in DecimalBlockNames \ DOMAIN pre.branches :
                         /\ n \in DOMAIN branches
                         /\ branches[n] = pre.branches[b]
                   /\ visited = <<>> \/ Last(visited)[1] # b

\* C34: a fetch for N peers on a repository without remotes registers N
\* remotes under N different names, and no registration fails.
C34_OneRemotePerPeer ==
    (lastOp = "fetch" /\ pre.remotes = {})
      => /\ fault # "add_remote"
         /\ Cardinality(remotes) = peers

\* C35: whenever create_agenda has committed an agenda, a verifier seeded
\* with the last finalized header accepts the commits on `work` after the
\* finalized tip followed by that agenda.
C35_AgendaVerifiedBeforeCommit ==
    (AgendaEnded /\ Len(created) > pre.created) =>
        LET seq == Append(WorkCommits, CreatedId(Len(created))) IN
        /\ \A i \in DOMAIN seq : Kind(seq[i]) # "Undecodable"
        /\ CsvRun(CsvNew(pre.branches[BRANCH.finalized]), seq).phase
             = "AgendaOpen"

-----------------------------------------------------------------------------
(* The wrapper under fair scheduling, with calls that end: the tasks call  *)
(* operations whose body returns, nobody drops a call's future, and a     *)
(* task that got its result may call again.                                *)
(* tokio::sync::Mutex is fair (the lock is granted in the order the        *)
(* callers asked for it), so a caller that finds the lock free again and   *)
(* again gets it: strong fairness of the acquisition.  The blocking pool   *)
(* runs the closure on a thread of its own and the runtime polls a task    *)
(* whose JoinHandle is ready: weak fairness of the worker and of the       *)
(* continuation.                                                           *)

\* The operations of the model's tasks whose body returns.
CwLiveOps == CwOps \ Unimplemented

\* `result` is handed to the caller, which is free to call again.
CwResult(t) ==
    /\ cwPc[t] = "done"
    /\ cwPc' = [cwPc EXCEPT ![t] = "idle"]
    /\ cwWorker' = [cwWorker EXCEPT ![t] = "none"]
    /\ cwOp' = [cwOp EXCEPT ![t] = "none"]
    /\ UNCHANGED <<cwLock, cwSlot>>
    /\ UNCHANGED <<repoVars, drVars, obsVars, rawVars, csvVars>>

NextCWLive ==
    \/ \E t \in Tasks, op \in CwLiveOps : CwCall(t, op)
    \/ \E t \in Tasks : CwTakeAndSpawn(t)
    \/ \E t \in Tasks : CwWorkerReturn(t)
    \/ \E t \in Tasks : CwReplace(t)
    \/ \E t \in Tasks : CwResult(t)

FairCW ==
    \A t \in Tasks :
        /\ SF_vars(CwTakeAndSpawn(t))
        /\ WF_vars(CwWorkerReturn(t))
        /\ WF_vars(CwReplace(t))

SpecCWLive == InitWrapper /\ [][NextCWLive]_vars /\ FairCW

\* C37: under fair scheduling, with underlying calls that return, every
\* wrapper call that waits for the lock eventually completes with the handle
\* back in the slot and the lock released.
C37_EveryCallCompletes ==
    \A t \in Tasks :
        (cwPc[t] = "waiting") ~> (cwPc[t] = "done" /\ cwSlot /\ LockFree)

\* One call has completed, with the handle back and the lock free, while
\* two other calls wait for the lock.
C37_Witness ==
    \E t \in Tasks :
        /\ cwPc[t] = "done"
        /\ cwSlot
        /\ LockFree
        /\ Cardinality({u \in Tasks : cwPc[u] = "waiting"}) >= 2

\* C38: after a call was dropped while it waited for its worker (the handle
\* taken, the worker not panicked), the call no longer holds the lock and,
\* once the lock is free, the handle is in the slot, so that no later call
\* finds the slot empty.
C38_CancelKeepsHandle ==
    \A t \in Tasks :
        (cwPc[t] = "cancelled" /\ cwWorker[t] \in {"running", "returned"})
          => /\ cwLock # t
             /\ LockFree => cwSlot

\* -------------------------------------------------- create_agenda alone

\* The tips of `work` create_agenda is called on: those of WorkTips, a tip
\* over a commit that does not decode, and a tip over a transaction that
\* follows an extra-agenda transaction.
AgendaWorkTips == WorkTips \cup {C.extra, C.ongarbage, C.onlate}

\* A repository holding the reserved branches, `work` checked out, and up
\* to two other branches.
InitAgenda ==
    /\ InitCW
    /\ csv = NoVerifier
    /\ rawComplete \in BOOLEAN
    /\ remotes = {}
    /\ created = <<>>
    /\ head = BRANCH.work
    /\ detached = NoBase
    /\ \E fin \in FinalizedTips, w \in AgendaWorkTips,
          S \in SUBSET {"a-1", "x"} :
         \E f \in [S -> AllTips] :
            /\ \A b \in S : f[b] \in ExtraTips(b)
            /\ branches = [b \in Reserved \cup S |->
                              IF b = BRANCH.finalized THEN fin
                              ELSE IF b = BRANCH.work THEN w
                              ELSE IF b = BRANCH.fp THEN C.proofcommit
                              ELSE f[b]]
    /\ NoOperation

NextAgenda == CreateAgenda

SpecAgenda == InitAgenda /\ [][NextAgenda]_vars

\* The errors create_agenda returns for a `work` it refuses.
AgendaRefusals ==
    {"work should be rebased on finalized", "decode", "verification",
     "work is not in the transaction phase"}

\* C39: create_agenda leaves `finalized` and `fp` where they were, and when
\* it returns an error because `work` is not rebased, a commit does not
\* decode or verify, or a commit is not a Transaction, no branch has moved
\* and no commit was created.
C39_AgendaErrorsChangeNothing ==
    AgendaEnded =>
        /\ \A b \in {BRANCH.finalized, BRANCH.fp} \cap DOMAIN pre.branches :
              /\ b \in DOMAIN branches
              /\ branches[b] = pre.branches[b]
        /\ (outcome = "err" /\ fault \in AgendaRefusals) => NothingCreated

\* create_agenda returned the error of a commit the verifier rejects, right
\* after a call that returned another of these errors, in a repository
\* with `fp`.
C39_Witness ==
    /\ AgendaEnded
    /\ BRANCH.fp \in DOMAIN pre.branches
    /\ outcome = "err"
    /\ fault = "verification"
    /\ prev.op = "create_agenda" /\ prev.outcome = "err"
    /\ NothingCreated

====
